---- MODULE Spec2Model ----
(***************************************************************************)
(* The Sequelize policy-storage adapter (src/src/adapter.ts): one table of *)
(* rule rows, the tuple <-> row mapping, the five adapter operations, the  *)
(* awaited steps of savePolicy and of newAdapter.                          *)
(*                                                                         *)
(* Strings are sequences of characters, so that joining a row into a rule  *)
(* line and splitting the line again are computed, not assumed. A column   *)
(* value is an option: Null (SQL NULL, JS null/undefined) or Some(s).      *)
(***************************************************************************)
EXTENDS Integers, Sequences, FiniteSets, TLC

VARIABLES
    table,      \* the rows of the rule table, in storage order
    nextId,     \* the storage's auto-increment counter for the id column
    callers,    \* per caller: its running or most recently finished adapter call
    server,     \* the database server: existing databases, databases holding the rule table
    ctor,       \* the running or finished newAdapter call
    history     \* when history.on: every (ptype, rule) pair a row was ever inserted for

vars == <<table, nextId, callers, server, ctor, history>>

----------------------------------------------------------------------------
(* Bounds of the model *)

\* ids the storage may hand out: at most MaxId rows are inserted in a run
MaxId == 3
\* rules per section of a model given to savePolicy
MaxPolicy == 1

----------------------------------------------------------------------------
(* Values *)

Null == <<>>
Some(s) == <<s>>

\* v0..v5
NCols == 6
VCols == <<"v0", "v1", "v2", "v3", "v4", "v5">>
Columns == {"id", "ptype"} \cup {VCols[i] : i \in 1..NCols}

\* strings as character sequences
S(c) == <<c>>
Empty == <<>>
Sep == <<",", " ">>

RECURSIVE join(_, _)
\* Array.prototype.join
join(strs, sep) ==
    IF strs = <<>> THEN Empty
    ELSE IF Len(strs) = 1 THEN strs[1]
    ELSE strs[1] \o sep \o join(Tail(strs), sep)

\* JS string conversion in `line.ptype + ', '`
ToStr(opt) == IF opt = Null THEN <<"n", "u", "l", "l">> ELSE opt[1]

\* JS truthiness of a column value, the predicate of `.filter(n => n)`
Truthy(opt) == opt # Null /\ opt[1] # Empty

----------------------------------------------------------------------------
(* Tuple -> row *)

\* savePolicyLine with a slip in one branch: `rule.length > 1` assigns v2
savePolicyLineGap(ptype, rule) ==
    [k \in {"id", "ptype"} \cup {VCols[IF i = 2 THEN 3 ELSE i] :
                i \in 1..(IF Len(rule) < NCols THEN Len(rule) ELSE NCols)} |->
        IF k = "id" THEN Null
        ELSE IF k = "ptype" THEN Some(ptype)
        ELSE Some(rule[IF k = VCols[3] /\ Len(rule) = 2 THEN 2
                       ELSE CHOOSE i \in 1..NCols : VCols[i] = k])]

\* savePolicyLine: the dataValues of a new Rule instance. A new instance has
\* id: null; ptype is always assigned; v_i is assigned only when
\* rule.length > i. Keys never assigned are absent.
savePolicyLine(ptype, rule) ==
    [k \in {"id", "ptype"} \cup {VCols[i] : i \in 1..(IF Len(rule) < NCols THEN Len(rule) ELSE NCols)} |->
        IF k = "id" THEN Null
        ELSE IF k = "ptype" THEN Some(ptype)
        ELSE Some(rule[CHOOSE i \in 1..NCols : VCols[i] = k])]

\* line.save(): INSERT of the assigned columns; the storage assigns the id
\* and leaves every other column NULL.
InsertedRow(line, id) ==
    [k \in Columns |->
        IF k = "id" THEN Some(id)
        ELSE IF k \in DOMAIN line THEN line[k]
        ELSE Null]

\* the where clause without the filter on 'id': id: null stays in it
WhereOfKeepingId(line) == line

\* removePolicy's where clause: every key of dataValues but 'id'
WhereOf(line) == [k \in (DOMAIN line) \ {"id"} |-> line[k]]

\* a row satisfies a where clause: an AND of equalities
Matches(row, where) == \A k \in DOMAIN where : row[k] = where[k]

RECURSIVE DestroyFirst(_, _)
\* a destroy that stops at the first matching row (a LIMIT 1 delete)
DestroyFirst(rows, where) ==
    IF rows = <<>> THEN <<>>
    ELSE IF Matches(Head(rows), where) THEN Tail(rows)
    ELSE <<Head(rows)>> \o DestroyFirst(Tail(rows), where)

\* Model.destroy({where}): the rows that remain
Destroy(rows, where) == SelectSeq(rows, LAMBDA row : ~Matches(row, where))

----------------------------------------------------------------------------
(* Row -> rule line *)

RECURSIVE FilterTruthy(_)
FilterTruthy(opts) ==
    IF opts = <<>> THEN <<>>
    ELSE IF Truthy(Head(opts)) THEN <<Head(opts)[1]>> \o FilterTruthy(Tail(opts))
    ELSE FilterTruthy(Tail(opts))

\* loadPolicyLine: the text handed to Helper.loadPolicyLine
loadPolicyLine(row) ==
    ToStr(row["ptype"]) \o Sep \o
        join(FilterTruthy([i \in 1..NCols |-> row[VCols[i]]]), Sep)

RECURSIVE SplitFrom(_, _)
SplitFrom(s, cur) ==
    IF s = <<>> THEN <<cur>>
    ELSE IF Len(s) >= Len(Sep) /\ SubSeq(s, 1, Len(Sep)) = Sep
    THEN <<cur>> \o SplitFrom(SubSeq(s, Len(Sep) + 1, Len(s)), Empty)
    ELSE SplitFrom(Tail(s), Append(cur, Head(s)))

\* the fields the model loader reads from a rule line "ptype, v0, ..., vk"
Fields(line) == SplitFrom(line, Empty)

----------------------------------------------------------------------------
(* The inputs the operations are called with *)

A == S("a")
B == S("b")
P == S("p")
G == S("g")

\* rule tuples of every length 0..6, each a prefix of the next, and one with
\* an empty-string element
RulesP ==
    { <<>>, <<A>>, <<A, B>>, <<A, B, A>>, <<A, B, A, B>>,
      <<A, B, A, B, A>>, <<A, B, A, B, A, B>>, <<Empty, B>> }
RulesG == { <<A, B>> }

\* the (ptype, rule) pairs addPolicy and removePolicy are called with
Pairs == ({P} \X RulesP) \cup ({G} \X RulesG)

\* the section a caller passes with a ptype: its first character (the
\* adapter never reads `sec`)
SecOf(ptype) == <<Head(ptype)>>

\* policy lists of a model's assertion
RECURSIVE ListsOver(_, _)
ListsOver(rules, n) ==
    IF n = 0 THEN {<<>>}
    ELSE LET shorter == ListsOver(rules, n - 1)
         IN  shorter \cup {Append(l, r) : l \in shorter, r \in rules}

ModelRulesP == { <<A, B>>, <<Empty, B>> }
ModelRulesG == { <<A, B>> }

\* model.model: section 'p' holds one assertion "p"; section 'g' is absent
\* (a model without role definitions) or holds one assertion "g".
\* A section is the sequence of its [ptype, ast.policy] entries.
Models ==
    { [p |-> Some(<< <<P, pl>> >>), g |-> gs] :
        pl \in ListsOver(ModelRulesP, MaxPolicy),
        gs \in {Null} \cup { Some(<< <<G, gl>> >>) : gl \in ListsOver(ModelRulesG, MaxPolicy) } }

RECURSIVE Flatten(_)
\* the nested loops of savePolicy over one section: its (ptype, rule) pairs
\* in iteration order
Flatten(section) ==
    IF section = <<>> THEN <<>>
    ELSE LET ptype == Head(section)[1]
             policy == Head(section)[2]
         IN  [i \in 1..Len(policy) |-> <<ptype, policy[i]>>] \o Flatten(Tail(section))

\* the sections savePolicy reads, in order
SectionsOf(m) == <<m.p, m.g>>

----------------------------------------------------------------------------
(* The database server and adapter construction *)

Casbin == <<"casbin">>
Host == <<"srv/">>
\* connection strings: no database, database casbin, database app
ConnStrs == { Host, Host \o <<"casbin">>, Host \o <<"app">> }

\* the database a url designates: what follows the host part
DbOf(url) == Tail(url)

\* sequelize.authenticate() succeeds only on a reachable server and, when the
\* url names a database, an existing one
CanAuthenticate(srv, url) == DbOf(url) = <<>> \/ DbOf(url) \in srv.dbs

\* 'CREATE DATABASE IF NOT EXISTS casbin'
CreateDatabaseIfNotExists(srv) == [srv EXCEPT !.dbs = @ \cup {Casbin}]

\* Model.sync(): CREATE TABLE IF NOT EXISTS in the connection's database
SyncTable(srv, url) == [srv EXCEPT !.tables = @ \cup {DbOf(url)}]
CanSync(srv, url) == DbOf(url) \in srv.dbs

\* open() without the `url = this.connStr + 'casbin'` branch
OpenUrlRaw(connStr, dbSpecified) == connStr

\* open(): the url of the main connection
OpenUrl(connStr, dbSpecified) ==
    IF ~dbSpecified THEN connStr \o Casbin ELSE connStr

NoCtor ==
    [connStr |-> <<>>, dbSpecified |-> FALSE, url |-> <<>>, pc |-> "none",
     log |-> <<>>, error |-> "none", adapter |-> FALSE]

\* the first awaited step of open()
FirstStep(dbSpecified) == IF ~dbSpecified THEN "bootAuthenticate" ELSE "authenticate"

\* newAdapter(connStr, dbSpecified): construct, then start open()
newAdapter(connStr, dbSpecified) ==
    /\ ctor.pc = "none"
    /\ ctor' = [NoCtor EXCEPT !.connStr = connStr,
                              !.dbSpecified = dbSpecified,
                              !.url = OpenUrl(connStr, dbSpecified),
                              !.pc = FirstStep(dbSpecified)]
    /\ UNCHANGED <<table, nextId, callers, server, history>>

\* the ctor after one awaited step succeeded
CtorDone(step, on, nextPc) ==
    [ctor EXCEPT !.log = Append(@, [step |-> step, on |-> on]), !.pc = nextPc]

\* the ctor after the awaited step rejected: the error leaves newAdapter
CtorThrew(step) == [ctor EXCEPT !.pc = "threw", !.error = step]

\* createDatabase: await sequelize.authenticate() on the raw connStr
BootAuthenticate ==
    /\ ctor.pc = "bootAuthenticate"
    /\ \E reachable \in BOOLEAN :
        ctor' = IF reachable /\ CanAuthenticate(server, ctor.connStr)
                THEN CtorDone("authenticate", ctor.connStr, "createDatabase")
                ELSE CtorThrew("authenticate")
    /\ UNCHANGED <<table, nextId, callers, server, history>>

\* createDatabase: await sequelize.query('CREATE DATABASE IF NOT EXISTS casbin')
CreateDatabaseQuery ==
    /\ ctor.pc = "createDatabase"
    /\ \E ok \in BOOLEAN :
        IF ok
        THEN /\ server' = CreateDatabaseIfNotExists(server)
             /\ ctor' = CtorDone("query", Casbin, "bootClose")
        ELSE /\ server' = server
             /\ ctor' = CtorThrew("query")
    /\ UNCHANGED <<table, nextId, callers, history>>

\* createDatabase: await sequelize.close()
BootClose ==
    /\ ctor.pc = "bootClose"
    /\ \E ok \in BOOLEAN :
        ctor' = IF ok THEN CtorDone("close", ctor.connStr, "authenticate")
                ELSE CtorThrew("close")
    /\ UNCHANGED <<table, nextId, callers, server, history>>

\* open: await this.sequelize.authenticate() on the main url
Authenticate ==
    /\ ctor.pc = "authenticate"
    /\ \E reachable \in BOOLEAN :
        ctor' = IF reachable /\ CanAuthenticate(server, ctor.url)
                THEN CtorDone("authenticate", ctor.url, "createTable")
                ELSE CtorThrew("authenticate")
    /\ UNCHANGED <<table, nextId, callers, server, history>>

\* open: await this.createTable(); then newAdapter returns the adapter
OpenCreateTable ==
    /\ ctor.pc = "createTable"
    /\ \E ok \in BOOLEAN :
        IF ok /\ CanSync(server, ctor.url)
        THEN /\ server' = SyncTable(server, ctor.url)
             /\ ctor' = [CtorDone("sync", ctor.url, "returned") EXCEPT !.adapter = TRUE]
        ELSE /\ server' = server
             /\ ctor' = CtorThrew("sync")
    /\ UNCHANGED <<table, nextId, callers, history>>

----------------------------------------------------------------------------
(* The adapter's operations *)

Callers == {"c1", "c2"}

\* the history variable after a row for `pair` was inserted
Recorded(h, pair) == IF h.on THEN [h EXCEPT !.pairs = @ \cup {pair}] ELSE h

\* a caller that has made no call yet
NoCall ==
    [op |-> "none", args |-> <<>>, pc |-> "idle", sec |-> 0, queue |-> <<>>,
     k |-> 0, result |-> "none", out |-> <<>>]

\* a call that has ended: it returned (result "ok" / "true") or threw
Ended(op, args, pc, result, out) ==
    [NoCall EXCEPT !.op = op, !.args = args, !.pc = pc, !.result = result, !.out = out]

\* a caller awaits each call: it starts a call only when none of its is running
Free(c) == callers[c].pc \in {"idle", "returned", "threw"}

\* the number of rows savePolicy(m) inserts when nothing fails
RECURSIVE NumRules(_, _)
NumRules(m, s) ==
    IF s > Len(SectionsOf(m)) \/ SectionsOf(m)[s] = Null THEN 0
    ELSE Len(Flatten(SectionsOf(m)[s][1])) + NumRules(m, s + 1)

\* rows the savePolicy calls in flight have still to insert; the guards below
\* use it to keep every started call within the MaxId ids of the model
RECURSIVE Owed(_)
Owed(cs) ==
    IF cs = {} THEN 0
    ELSE LET c == CHOOSE x \in cs : TRUE
             call == callers[c]
             rest == IF call.pc \in {"dropTable", "createTable"} THEN NumRules(call.args, 1)
                     ELSE IF call.pc = "save"
                     THEN Len(call.queue) + NumRules(call.args, call.sec + 1)
                     ELSE 0
         IN  rest + Owed(cs \ {c})

\* line.save() of the row for (ptype, rule)
SaveRow(rows, id, ptype, rule) ==
    Append(rows, InsertedRow(savePolicyLine(ptype, rule), id))

\* addPolicy(sec, ptype, rule)
addPolicy(c, sec, ptype, rule) ==
    /\ ctor.adapter /\ Free(c)
    /\ nextId + Owed(Callers) <= MaxId
    /\ \E ok \in BOOLEAN :
        IF ok
        THEN /\ table' = SaveRow(table, nextId, ptype, rule)
             /\ nextId' = nextId + 1
             /\ history' = Recorded(history, <<ptype, rule>>)
             /\ callers' = [callers EXCEPT ![c] =
                    Ended("addPolicy", <<ptype, rule>>, "returned", "ok", <<>>)]
        ELSE /\ UNCHANGED <<table, nextId, history>>
             /\ callers' = [callers EXCEPT ![c] =
                    Ended("addPolicy", <<ptype, rule>>, "threw", "storage error", <<>>)]
    /\ UNCHANGED <<server, ctor>>

\* removePolicy(sec, ptype, rule)
removePolicy(c, sec, ptype, rule) ==
    /\ ctor.adapter /\ Free(c)
    /\ \E ok \in BOOLEAN :
        IF ok
        THEN LET left == Destroy(table, WhereOf(savePolicyLine(ptype, rule)))
             IN  /\ table' = left
                 /\ callers' = [callers EXCEPT ![c] =
                        Ended("removePolicy", <<ptype, rule>>, "returned", "ok",
                              <<Len(table) - Len(left)>>)]
        ELSE /\ table' = table
             /\ callers' = [callers EXCEPT ![c] =
                    Ended("removePolicy", <<ptype, rule>>, "threw", "storage error", <<>>)]
    /\ UNCHANGED <<nextId, server, ctor, history>>

\* removeFilteredPolicy implemented as the host interface describes it
removeFilteredPolicyDeleting(c, sec, ptype, fieldIndex, fieldValues) ==
    /\ ctor.adapter /\ Free(c)
    /\ table' = Destroy(table,
            [k \in {"ptype"} \cup {VCols[fieldIndex + i] : i \in 1..Len(fieldValues)} |->
                IF k = "ptype" THEN Some(ptype)
                ELSE Some(fieldValues[CHOOSE i \in 1..Len(fieldValues) : VCols[fieldIndex + i] = k])])
    /\ callers' = [callers EXCEPT ![c] =
            Ended("removeFilteredPolicy", <<>>, "returned", "ok", <<>>)]
    /\ UNCHANGED <<nextId, server, ctor, history>>

\* removeFilteredPolicy(sec, ptype, fieldIndex, ...fieldValues)
removeFilteredPolicy(c, sec, ptype, fieldIndex, fieldValues) ==
    /\ ctor.adapter /\ Free(c)
    /\ callers' = [callers EXCEPT ![c] =
            Ended("removeFilteredPolicy", <<>>, "threw", "not implemented", <<>>)]
    /\ UNCHANGED <<table, nextId, server, ctor, history>>

\* loadPolicy(model): findAll, then one line per row to the model's loader
loadPolicy(c) ==
    /\ ctor.adapter /\ Free(c)
    /\ \E ok \in BOOLEAN :
        callers' = [callers EXCEPT ![c] =
            IF ok
            THEN Ended("loadPolicy", <<>>, "returned", "ok",
                       [i \in 1..Len(table) |-> loadPolicyLine(table[i])])
            ELSE Ended("loadPolicy", <<>>, "threw", "storage error", <<>>)]
    /\ UNCHANGED <<table, nextId, server, ctor, history>>

----------------------------------------------------------------------------
(* savePolicy, one action per awaited step *)

RECURSIVE Enter(_, _, _)
\* the synchronous code between two awaits of savePolicy: from the start of
\* section number s, the call's next position. An absent section makes the
\* for-of throw a TypeError; past the last section the call returns true.
Enter(call, m, s) ==
    IF s > Len(SectionsOf(m))
    THEN [call EXCEPT !.pc = "returned", !.result = "true", !.sec = 0, !.queue = <<>>]
    ELSE IF SectionsOf(m)[s] = Null
    THEN [call EXCEPT !.pc = "threw", !.result = "TypeError", !.sec = 0, !.queue = <<>>]
    ELSE LET rules == Flatten(SectionsOf(m)[s][1])
         IN  IF rules = <<>> THEN Enter(call, m, s + 1)
             ELSE [call EXCEPT !.pc = "save", !.sec = s, !.queue = rules]

\* savePolicy(model) is called: it runs up to the await of dropTable
savePolicy(c, m) ==
    /\ ctor.adapter /\ Free(c)
    /\ nextId - 1 + Owed(Callers) + NumRules(m, 1) <= MaxId
    /\ callers' = [callers EXCEPT ![c] =
            [NoCall EXCEPT !.op = "savePolicy", !.args = m, !.pc = "dropTable",
                           !.result = "pending"]]
    /\ UNCHANGED <<table, nextId, server, ctor, history>>

\* a dropTable that deletes nothing
dropTableKeepingRows(c) ==
    /\ callers[c].pc = "dropTable"
    /\ table' = table
    /\ callers' = [callers EXCEPT ![c].pc = "createTable"]
    /\ UNCHANGED <<nextId, server, ctor, history>>

\* await this.dropTable(): destroy({where: {}, truncate: true})
dropTable(c) ==
    /\ callers[c].pc = "dropTable"
    /\ table' = Destroy(table, <<>>)
    /\ callers' = [callers EXCEPT ![c].pc = "createTable"]
    /\ UNCHANGED <<nextId, server, ctor, history>>

\* await this.createTable(), then on to the 'p' section
createTable(c) ==
    /\ callers[c].pc = "createTable"
    /\ server' = SyncTable(server, ctor.url)
    /\ callers' = [callers EXCEPT ![c] = Enter(@, @.args, 1)]
    /\ UNCHANGED <<table, nextId, ctor, history>>

\* await line.save() of the next rule, then on to the next rule or section
SaveLine(c) ==
    /\ callers[c].pc = "save"
    /\ LET call == callers[c]
           ptype == Head(call.queue)[1]
           rule == Head(call.queue)[2]
           after == [call EXCEPT !.k = @ + 1, !.queue = Tail(@)]
       IN  /\ table' = SaveRow(table, nextId, ptype, rule)
           /\ nextId' = nextId + 1
           /\ history' = Recorded(history, <<ptype, rule>>)
           /\ callers' = [callers EXCEPT ![c] =
                  IF after.queue = <<>> THEN Enter(after, call.args, call.sec + 1)
                  ELSE after]
    /\ UNCHANGED <<server, ctor>>

\* a savePolicy that undoes its inserts when a step rejects
SaveFailsRollingBack(c) ==
    /\ callers[c].pc \in {"dropTable", "createTable", "save"}
    /\ table' = SubSeq(table, 1, Len(table) - callers[c].k)
    /\ callers' = [callers EXCEPT ![c] =
            [@ EXCEPT !.pc = "threw", !.result = "storage error", !.queue = <<>>]]
    /\ UNCHANGED <<nextId, server, ctor, history>>

\* the awaited database step of a running savePolicy rejects: the error
\* leaves savePolicy, nothing later runs, nothing is undone
SaveFails(c) ==
    /\ callers[c].pc \in {"dropTable", "createTable", "save"}
    /\ callers' = [callers EXCEPT ![c] =
            [@ EXCEPT !.pc = "threw", !.result = "storage error", !.queue = <<>>]]
    /\ UNCHANGED <<table, nextId, server, ctor, history>>

----------------------------------------------------------------------------
(* Specifications *)

\* the adapter newAdapter(Host, false) returns on a fresh server
Opened ==
    [connStr |-> Host, dbSpecified |-> FALSE, url |-> Host \o Casbin, pc |-> "returned",
     log |-> << [step |-> "authenticate", on |-> Host],
                [step |-> "query", on |-> Casbin],
                [step |-> "close", on |-> Host],
                [step |-> "authenticate", on |-> Host \o Casbin],
                [step |-> "sync", on |-> Host \o Casbin] >>,
     error |-> "none", adapter |-> TRUE]

Init ==
    /\ table = <<>>
    /\ nextId = 1
    /\ callers = [c \in Callers |-> NoCall]
    /\ server = [dbs |-> {Casbin}, tables |-> {Casbin}]
    /\ ctor = Opened
    /\ history = [on |-> FALSE, pairs |-> {}]

\* one caller, awaiting each of its calls
Next ==
    \/ \E pair \in Pairs : addPolicy("c1", SecOf(pair[1]), pair[1], pair[2])
    \/ \E pair \in Pairs : removePolicy("c1", SecOf(pair[1]), pair[1], pair[2])
    \/ \E ptype \in {P, G}, fieldIndex \in 0..1 :
            removeFilteredPolicy("c1", SecOf(ptype), ptype, fieldIndex, <<A>>)
    \/ loadPolicy("c1")
    \/ \E m \in Models : savePolicy("c1", m)
    \/ dropTable("c1")
    \/ createTable("c1")
    \/ SaveLine("c1")
    \/ SaveFails("c1")

Spec == Init /\ [][Next]_vars

\* the same program, with the pairs ever inserted recorded in `history`
InitHistory ==
    /\ table = <<>>
    /\ nextId = 1
    /\ callers = [c \in Callers |-> NoCall]
    /\ server = [dbs |-> {Casbin}, tables |-> {Casbin}]
    /\ ctor = Opened
    /\ history = [on |-> TRUE, pairs |-> {}]

SpecHistory == InitHistory /\ [][Next]_vars

\* construction: any connection string and flag, on any server
Servers ==
    { [dbs |-> d, tables |-> t] : d \in SUBSET {<<"casbin">>, <<"app">>}, t \in SUBSET {<<"casbin">>, <<"app">>} }

InitOpen ==
    /\ table = <<>>
    /\ nextId = 1
    /\ callers = [c \in Callers |-> NoCall]
    /\ server \in {srv \in Servers : srv.tables \subseteq srv.dbs}
    /\ ctor = NoCtor
    /\ history = [on |-> FALSE, pairs |-> {}]

NextOpen ==
    \/ \E connStr \in ConnStrs, dbSpecified \in BOOLEAN : newAdapter(connStr, dbSpecified)
    \/ BootAuthenticate
    \/ CreateDatabaseQuery
    \/ BootClose
    \/ Authenticate
    \/ OpenCreateTable

SpecOpen == InitOpen /\ [][NextOpen]_vars

\* two callers, each calling savePolicy once, on a table that may hold a row
InitConc ==
    /\ table \in {<<>>, SaveRow(<<>>, 1, P, <<A>>)}
    /\ nextId = Len(table) + 1
    /\ history = [on |-> FALSE, pairs |-> {}]
    /\ callers = [c \in Callers |-> NoCall]
    /\ server = [dbs |-> {Casbin}, tables |-> {Casbin}]
    /\ ctor = Opened

NextConc ==
    \/ \E c \in Callers, m \in Models : callers[c].op = "none" /\ savePolicy(c, m)
    \/ \E c \in Callers : dropTable(c)
    \/ \E c \in Callers : createTable(c)
    \/ \E c \in Callers : SaveLine(c)
    \/ \E c \in Callers : SaveFails(c)

SpecConc == InitConc /\ [][NextConc]_vars

----------------------------------------------------------------------------
(* Properties *)

\* the row is the row of exactly (ptype, rule): rule's elements in v0.., NULL after
IsRowOf(row, ptype, rule) ==
    /\ row["ptype"] = Some(ptype)
    /\ \A i \in 1..NCols :
        row[VCols[i]] = IF i <= Len(rule) THEN Some(rule[i]) ELSE Null

\* the number of rows that are rows of exactly (ptype, rule)
CountOf(rows, ptype, rule) ==
    Cardinality({i \in 1..Len(rows) : IsRowOf(rows[i], ptype, rule)})

\* the (ptype, tuple) pair the model loader reads from a rule line
PairOfLine(line) == <<Head(Fields(line)), Tail(Fields(line))>>

\* the rules of a section of a model; none when the section is absent
SectionRules(section) == IF section = Null THEN <<>> ELSE Flatten(section[1])

\* all rules of a model, 'p' section then 'g' section
AllRules(m) == SectionRules(m.p) \o SectionRules(m.g)

\* the step is a call of `op` by the single caller that ended with `result`
EndsCall(op, result) ==
    /\ callers' # callers
    /\ callers'["c1"].op = op
    /\ callers'["c1"].result = result

\* C1: after addPolicy(sec, ptype, tuple) on an empty table, loadPolicy hands
\* the model loader exactly one line, whose first field is ptype and whose
\* remaining fields are the tuple's elements, in order.
C1_RoundTripOneRule ==
    [][ ( /\ callers["c1"].op = "addPolicy"
          /\ callers["c1"].result = "ok"
          /\ Len(table) = 1
          /\ EndsCall("loadPolicy", "ok") )
        => LET lines == callers'["c1"].out
               args == callers["c1"].args
           IN  /\ Len(lines) = 1
               /\ Fields(lines[1]) = <<args[1]>> \o args[2] ]_vars

\* C2: a loadPolicy that follows a savePolicy(model) that returned true
\* yields, as a set of (ptype, tuple) pairs, exactly the rules of the model's
\* 'p' and 'g' sections, from one row per rule tuple.
C2_SaveThenLoad ==
    [][ ( /\ callers["c1"].op = "savePolicy"
          /\ callers["c1"].result = "true"
          /\ EndsCall("loadPolicy", "ok") )
        => LET lines == callers'["c1"].out
               rules == AllRules(callers["c1"].args)
           IN  /\ Len(lines) = Len(rules)
               /\ {PairOfLine(lines[i]) : i \in 1..Len(lines)}
                    = {rules[i] : i \in 1..Len(rules)} ]_vars

\* C3: removePolicy of a (ptype, tuple) pair that was never inserted deletes
\* no row and raises no error (the storage answering).
C3_RemoveNeverInserted ==
    [][ ( /\ history.on
          /\ callers' # callers
          /\ callers'["c1"].op = "removePolicy"
          /\ callers'["c1"].result # "storage error"
          /\ callers'["c1"].args \notin history.pairs )
        => /\ Len(table') = Len(table)
           /\ callers'["c1"].result = "ok" ]_vars

\* the predicate of C4: ptype equal, and v_i = rule[i] for every i < length(rule)
SatisfiesPrefix(row, ptype, rule) ==
    /\ row["ptype"] = Some(ptype)
    /\ \A i \in 1..Len(rule) : row[VCols[i]] = Some(rule[i])

\* C4: removePolicy(sec, ptype, rule), rule of length 0..6, deletes exactly
\* the rows with that ptype and v_i = rule[i] for every i < length(rule);
\* later fields and the id play no part, and every other row stays, unchanged.
C4_RemoveDeletesPrefixMatches ==
    [][ EndsCall("removePolicy", "ok")
        => LET ptype == callers'["c1"].args[1]
               rule == callers'["c1"].args[2]
           IN  table' = SelectSeq(table,
                    LAMBDA row : ~SatisfiesPrefix(row, ptype, rule)) ]_vars

\* a removePolicy with the empty rule deleted two rows of its ptype, one of
\* them with fields set, and kept the row of the other ptype
C4_Witness ==
    /\ callers["c1"].op = "removePolicy"
    /\ callers["c1"].result = "ok"
    /\ callers["c1"].args = <<P, <<>>>>
    /\ callers["c1"].out = <<2>>
    /\ Len(table) = 1
    /\ IsRowOf(table[1], G, <<A, B>>)

\* C5 as claimed: with two rows equal to the pair in the table (the pair was
\* inserted twice), one removePolicy of the pair leaves exactly one of them.
C5_RemoveLeavesOneDuplicate ==
    [][ ( /\ EndsCall("removePolicy", "ok")
          /\ CountOf(table, callers'["c1"].args[1], callers'["c1"].args[2]) = 2 )
        => CountOf(table', callers'["c1"].args[1], callers'["c1"].args[2]) = 1 ]_vars

\* C5 as amended: with two (or more) rows equal to the pair in the table, one
\* removePolicy of the pair deletes them all: no row equal to the pair is left.
C5_RemoveDeletesAllDuplicates ==
    [][ ( /\ EndsCall("removePolicy", "ok")
          /\ CountOf(table, callers'["c1"].args[1], callers'["c1"].args[2]) >= 2 )
        => LET ptype == callers'["c1"].args[1]
               rule == callers'["c1"].args[2]
           IN  /\ CountOf(table', ptype, rule) = 0
               /\ Len(table') <= Len(table) - CountOf(table, ptype, rule) ]_vars

\* a removePolicy of a full six-field rule deleted two rows: both were rows
\* of exactly that pair, and one row of another rule is still there
C5_Witness ==
    /\ callers["c1"].op = "removePolicy"
    /\ callers["c1"].result = "ok"
    /\ Len(callers["c1"].args[2]) = NCols
    /\ callers["c1"].out = <<2>>
    /\ Len(table) = 1

RowShape(row) ==
    /\ row["ptype"] # Null
    /\ \A i \in 1..NCols : \A j \in 1..NCols :
        (j < i /\ row[VCols[i]] # Null) => row[VCols[j]] # Null

\* a step leaves every row it keeps as it was: no row is updated in place
NoUpdateInPlace ==
    \A i \in 1..Len(table) : \A j \in 1..Len(table') :
        table[i]["id"] = table'[j]["id"] => table[i] = table'[j]

\* C10: every row has a non-null ptype and a gap-free prefix of set fields,
\* and rows are only inserted or deleted, never updated in place.
C10_RowShape ==
    /\ [](\A i \in 1..Len(table) : RowShape(table[i]))
    /\ [][NoUpdateInPlace]_vars

\* the table holds a row with no field set and a row with all six set
C10_Witness ==
    /\ \E i \in 1..Len(table) : table[i]["v0"] = Null
    /\ \E i \in 1..Len(table) : table[i]["v5"] # Null
    /\ callers["c1"].op = "removePolicy"
    /\ callers["c1"].out = <<1>>

\* the steps newAdapter(connStr, dbSpecified) performs, in order
ExpectedSteps(connStr, dbSpecified) ==
    IF ~dbSpecified
    THEN << [step |-> "authenticate", on |-> connStr],
            [step |-> "query", on |-> <<"casbin">>],
            [step |-> "close", on |-> connStr],
            [step |-> "authenticate", on |-> connStr \o <<"casbin">>],
            [step |-> "sync", on |-> connStr \o <<"casbin">>] >>
    ELSE << [step |-> "authenticate", on |-> connStr],
            [step |-> "sync", on |-> connStr] >>

\* C7: newAdapter performs its steps in the order of the protocol, returns
\* an adapter only after all of them succeeded, and on a failing step stops
\* with that step's error and no adapter.
C7_ConstructionProtocol ==
    ctor.pc # "none" =>
        LET steps == ExpectedSteps(ctor.connStr, ctor.dbSpecified)
            n == Len(ctor.log)
        IN  /\ n <= Len(steps)
            /\ ctor.log = SubSeq(steps, 1, n)
            /\ ctor.adapter <=> ctor.pc = "returned"
            /\ ctor.pc = "returned" => (n = Len(steps) /\ ctor.error = "none")
            /\ ctor.pc = "threw" => (n < Len(steps) /\ ctor.error = steps[n + 1].step)
            /\ ctor.pc \notin {"returned", "threw"} => ctor.error = "none"

\* an adapter was returned with dbSpecified false, after all five steps
C7_Witness ==
    /\ ctor.adapter
    /\ ~ctor.dbSpecified
    /\ Len(ctor.log) = 5
    /\ Casbin \in server.tables

\* C8: a storage failure at an insert of savePolicy(model) throws out of
\* savePolicy with nothing left to run, and leaves in the table exactly the
\* rows inserted so far: the first k rules of the model, none from before.
C8_SaveFailureLeavesPartialRows ==
    LET call == callers["c1"]
    IN  (call.op = "savePolicy" /\ call.result = "storage error" /\ call.sec >= 1) =>
            LET rules == AllRules(call.args)
            IN  /\ call.pc = "threw"
                /\ call.queue = <<>>
                /\ call.k < Len(rules)
                /\ Len(table) = call.k
                /\ \A i \in 1..Len(table) :
                    /\ IsRowOf(table[i], rules[i][1], rules[i][2])
                    /\ table[i]["id"] = Some(nextId - call.k + i - 1)

\* the second insert of a two-rule model failed after earlier rows had been
\* in the table: one row is left, neither the old rows nor the model's rules
C8_Witness ==
    LET call == callers["c1"]
    IN  /\ call.op = "savePolicy"
        /\ call.result = "storage error"
        /\ call.k = 1
        /\ Len(AllRules(call.args)) = 2
        /\ Len(table) = 1
        /\ table[1]["id"] = Some(2)

\* the (ptype, tuple) pair a row stands for: its leading set fields
PairOfRow(row) ==
    LET arity == Cardinality({i \in 1..NCols : \A j \in 1..i : row[VCols[j]] # Null})
    IN  <<row["ptype"][1], [i \in 1..arity |-> row[VCols[i]][1]]>>

TablePairs == [i \in 1..Len(table) |-> PairOfRow(table[i])]

Occurrences(seq, e) == Cardinality({i \in 1..Len(seq) : seq[i] = e})

\* the two sequences hold the same elements the same number of times
SameBag(s, t) ==
    /\ Len(s) = Len(t)
    /\ \A i \in 1..Len(s) : Occurrences(s, s[i]) = Occurrences(t, s[i])

\* C9: two concurrent savePolicy calls are not isolated. When both have
\* returned true the table holds all rules of one call's model and, beside
\* them, those rules of the other call's model inserted after the last clear
\* (a tail of its rule list); nothing else.
C9_ConcurrentSavesInterleave ==
    (callers["c1"].result = "true" /\ callers["c2"].result = "true") =>
        \E x \in Callers : \E y \in Callers \ {x} :
            LET rx == AllRules(callers[x].args)
                ry == AllRules(callers[y].args)
            IN  \E j \in 0..Len(ry) :
                    SameBag(TablePairs, rx \o SubSeq(ry, j + 1, Len(ry)))

\* both calls returned true and the table holds rows of both models: the
\* result of neither serial order
C9_Witness ==
    LET r1 == AllRules(callers["c1"].args)
        r2 == AllRules(callers["c2"].args)
    IN  /\ callers["c1"].result = "true"
        /\ callers["c2"].result = "true"
        /\ ~SameBag(TablePairs, r1)
        /\ ~SameBag(TablePairs, r2)
        /\ \E i \in 1..Len(table) : Occurrences(r1, TablePairs[i]) > 0 /\ Occurrences(r2, TablePairs[i]) = 0
        /\ \E i \in 1..Len(table) : Occurrences(r2, TablePairs[i]) > 0 /\ Occurrences(r1, TablePairs[i]) = 0

====
